---- MODULE Spec2Model ----
(***************************************************************************)
(* Workflow execution engine (package engine): Graph, Registry,            *)
(* ExecutionContext and Executor, together with the standard node handlers *)
(* of package handlers.  One run of Executor.Execute is modelled as a      *)
(* state machine whose steps are the iterations of its traversal loop.     *)
(***************************************************************************)
EXTENDS Integers, Sequences, FiniteSets, TLC

(* ----------------------------- bounds ---------------------------------- *)

\* Largest number of AddEdge calls used to build a graph.
MaxEdges == 3

\* Temperatures and thresholds range over 0..MaxTemp.
MaxTemp == 2

\* Node ids of the generated graphs; "n1" is always added as the start node.
NodeIDs == {"n1", "n2", "n3"}

\* Branch labels an edge can carry.
SourceHandles == {"", "true", "false"}

\* The empty node id: Graph.startNode before any start node was added, and
\* the value of currentNodeID that ends the traversal loop.
NoNode == ""

\* Node.Metadata of length 0.
NoMetadata ==
    [valid |-> TRUE, empty |-> TRUE, operator |-> "", threshold |-> 0, subject |-> "",
     template |-> ""]

(* ------------------------------ Graph ----------------------------------- *)

NewGraph == [nodes |-> <<>>, adjacency |-> <<>>, startNode |-> NoNode]

\* Extend or overwrite one entry of a Go map modelled as a function.
MapSet(m, k, v) == [x \in (DOMAIN m) \cup {k} |-> IF x = k THEN v ELSE m[x]]

\* An AddNode that gives the node a fresh outgoing list, as BuildGraph does.
AddNode_ResetsEdges(g, node) ==
    [nodes     |-> MapSet(g.nodes, node.ID, node),
     adjacency |-> MapSet(g.adjacency, node.ID, <<>>),
     startNode |-> IF node.Type = "start" THEN node.ID ELSE g.startNode]

AddNode(g, node) ==
    [nodes     |-> MapSet(g.nodes, node.ID, node),
     adjacency |-> IF node.ID \in DOMAIN g.adjacency
                   THEN g.adjacency
                   ELSE MapSet(g.adjacency, node.ID, <<>>),
     startNode |-> IF node.Type = "start" THEN node.ID ELSE g.startNode]

GetOutgoingEdges(g, nodeID) ==
    IF nodeID \in DOMAIN g.adjacency THEN g.adjacency[nodeID] ELSE <<>>

AddEdge(g, edge) ==
    [g EXCEPT !.adjacency =
        MapSet(g.adjacency, edge.SourceID, Append(GetOutgoingEdges(g, edge.SourceID), edge))]

\* A validation that also rejects an edge to an id that is not a node.
Validate_NoDangling(g) ==
    IF g.startNode = NoNode THEN "graph has no start node"
    ELSE IF \E id \in DOMAIN g.adjacency : \E i \in 1..Len(g.adjacency[id]) :
               g.adjacency[id][i].TargetID \notin DOMAIN g.nodes
         THEN "edge to unknown node"
         ELSE "nil"

\* A validation that accepts every graph.
Validate_Lenient(g) == "nil"

\* nil when the graph has a start node, the error otherwise.
Validate(g) == IF g.startNode = NoNode THEN "graph has no start node" ELSE "nil"

GetStartNode(g) == g.startNode

\* GetNode's second result.
HasNode(g, id) == id \in DOMAIN g.nodes

\* GetNode's first result, for an id that HasNode.
GetNode(g, id) == g.nodes[id]

RECURSIVE AddNodes(_, _)
AddNodes(g, ns) ==
    IF ns = <<>> THEN g ELSE AddNodes(AddNode(g, Head(ns)), Tail(ns))

RECURSIVE AddEdges(_, _)
AddEdges(g, es) ==
    IF es = <<>> THEN g ELSE AddEdges(AddEdge(g, Head(es)), Tail(es))

\* buildEngineGraph: all nodes first, then all edges.
buildEngineGraph(ns, es) == AddEdges(AddNodes(NewGraph, ns), es)

\* The loop of workflow.BuildGraph over the nodes: index the node, note a
\* start node, reset the node's adjacency list.
RECURSIVE IndexNodes(_, _)
IndexNodes(g, ns) ==
    IF ns = <<>> THEN g
    ELSE LET node == Head(ns) IN
         IndexNodes([nodes     |-> MapSet(g.nodes, node.ID, node),
                     adjacency |-> MapSet(g.adjacency, node.ID, <<>>),
                     startNode |-> IF node.Type = "start" THEN node.ID ELSE g.startNode],
                    Tail(ns))

\* workflow.BuildGraph: the graph (NewGraph standing for nil) and the error.
BuildGraph(ns, es) ==
    LET g == IndexNodes(NewGraph, ns) IN
    IF g.startNode = NoNode
    THEN [graph |-> NewGraph, err |-> "workflow has no start node"]
    ELSE [graph |-> AddEdges(g, es), err |-> "nil"]

(* ------------------------- ExecutionContext ---------------------------- *)

\* Values of the loosely typed state map, tagged with their dynamic type.
StringVal(s) == [t |-> "string", s |-> s, f |-> 0]
FloatVal(f) == [t |-> "float64", s |-> "", f |-> f]

\* ctx is the caller's context.Context: "background" or "cancelled".
NewExecutionContext(ctx) == [Ctx |-> ctx, State |-> <<>>, StepNumber |-> 0]

Set(ec, key, value) == [ec EXCEPT !.State = MapSet(ec.State, key, value)]

GetString(ec, key) ==
    IF key \in DOMAIN ec.State /\ ec.State[key].t = "string"
    THEN ec.State[key].s ELSE ""

\* An accessor whose zero value is below every temperature.
GetFloat_Negative(ec, key) ==
    IF key \in DOMAIN ec.State /\ ec.State[key].t = "float64"
    THEN ec.State[key].f ELSE 0 - 1

GetFloat(ec, key) ==
    IF key \in DOMAIN ec.State /\ ec.State[key].t = "float64"
    THEN ec.State[key].f ELSE 0

(* --------------------------- ExecutionStep ----------------------------- *)

\* A step's Output map: the set of its top-level keys and, for the key
\* "conditionResult", what its "result" entry holds: "none" (no such key),
\* "true", "false", or "nonbool" (the key is there but carries no boolean).
NilOutput == [keys |-> {}, conditionResult |-> "none"]
MessageOutput == [keys |-> {"message"}, conditionResult |-> "none"]

\* The zero value ExecutionStep{}.
ZeroStep ==
    [StepNumber |-> 0, NodeType |-> "", NodeID |-> "", Status |-> "",
     Output |-> NilOutput, Error |-> ""]

CompletedStep(ec, nodeType, node, output) ==
    [StepNumber |-> ec.StepNumber, NodeType |-> nodeType, NodeID |-> node.ID,
     Status |-> "completed", Output |-> output, Error |-> ""]

\* What a handler's Execute hands back: the step, the error ("nil" for none)
\* and the context as the handler left it.
Outcome(step, err, ec) == [step |-> step, err |-> err, ec |-> ec, sent |-> <<>>]

\* The outcome o of a handler that called its injected send function with message.
Sent(o, message) == [o EXCEPT !.sent = Append(@, message)]

(* ----------------------------- handlers -------------------------------- *)

StartHandler(ec, node) ==
    {Outcome(CompletedStep(ec, "start", node, MessageOutput), "nil", ec)}

EndHandler(ec, node) ==
    {Outcome(CompletedStep(ec, "end", node, MessageOutput), "nil", ec)}

FormHandler(ec, node) ==
    {Outcome(CompletedStep(ec, "form", node,
                [keys |-> {"message", "formData"}, conditionResult |-> "none"]),
             "nil", ec)}

\* A handler that falls back on temperature 0 when it has no weather
\* function or the function fails.
WeatherHandler_Lenient(fn, ec, node) ==
    LET city == GetString(ec, "form.city")
        temperature == IF fn.kind = "ok" THEN fn.temperature ELSE 0
        ec2 == Set(ec, "weather.temperature", FloatVal(temperature))
    IN IF city = "" THEN {Outcome(ZeroStep, "city not provided in form data", ec)}
       ELSE {Outcome(CompletedStep(ec2, "integration", node,
                       [keys |-> {"message", "apiResponse"}, conditionResult |-> "none"]),
                     "nil", ec2)}

\* fn is the injected WeatherFunc: nil, failing, or returning a temperature.
WeatherHandler(fn, ec, node) ==
    LET city == GetString(ec, "form.city") IN
    IF city = "" THEN {Outcome(ZeroStep, "city not provided in form data", ec)}
    ELSE IF fn.kind = "nil" THEN {Outcome(ZeroStep, "weather client not configured", ec)}
    ELSE IF fn.kind = "err" THEN {Outcome(ZeroStep, "failed to fetch weather", ec)}
    ELSE LET ec2 == Set(ec, "weather.temperature", FloatVal(fn.temperature)) IN
         {Outcome(CompletedStep(ec2, "integration", node,
                    [keys |-> {"message", "apiResponse"}, conditionResult |-> "none"]),
                  "nil", ec2)}

\* A comparator whose greater_than admits equality.
evaluateCondition_Inclusive(temperature, operator, threshold) ==
    CASE operator = "greater_than" -> temperature >= threshold
      [] operator = "less_than" -> temperature < threshold
      [] operator = "equals" -> temperature = threshold
      [] operator = "greater_than_or_equal" -> temperature >= threshold
      [] operator = "less_than_or_equal" -> temperature <= threshold
      [] OTHER -> FALSE

evaluateCondition(temperature, operator, threshold) ==
    CASE operator = "greater_than" -> temperature > threshold
      [] operator = "less_than" -> temperature < threshold
      [] operator = "equals" -> temperature = threshold
      [] operator = "greater_than_or_equal" -> temperature >= threshold
      [] operator = "less_than_or_equal" -> temperature <= threshold
      [] OTHER -> FALSE

BoolString(b) == IF b THEN "true" ELSE "false"

ConditionHandler(ec, node) ==
    LET md == node.Metadata IN
    IF ~md.empty /\ ~md.valid
    THEN {Outcome(ZeroStep, "failed to parse condition metadata", ec)}
    ELSE IF md.operator = ""
    THEN {Outcome(ZeroStep, "operator not specified in condition node metadata", ec)}
    ELSE LET temperature == GetFloat(ec, "weather.temperature")
             result == evaluateCondition(temperature, md.operator, md.threshold)
         IN {Outcome(CompletedStep(ec, "condition", node,
                       [keys |-> {"message", "conditionResult"},
                        conditionResult |-> BoolString(result)]),
                     "nil", ec)}

DefaultEmailSubject == "Weather Alert"

\* The text the notification handlers format from the form data and the
\* temperature: "Hi <name>, weather alert for <city>! Temperature is <t>".
AlertText(ec) ==
    [name |-> GetString(ec, "form.name"), city |-> GetString(ec, "form.city"),
     temperature |-> GetFloat(ec, "weather.temperature")]

\* fn is the injected EmailFunc: nil, failing, or succeeding.
EmailHandler(fn, ec, node) ==
    LET md == node.Metadata
        to == GetString(ec, "form.email")
        subject == IF md.subject = "" THEN DefaultEmailSubject ELSE md.subject
        mail == [to |-> to, subject |-> subject, body |-> AlertText(ec)]
        completed == Outcome(CompletedStep(ec, "email", node,
                                [keys |-> {"message", "emailContent"},
                                 conditionResult |-> "none"]),
                             "nil", ec)
    IN IF to = "" THEN {Outcome(ZeroStep, "recipient email not provided in form data", ec)}
       ELSE IF ~md.empty /\ ~md.valid
       THEN {Outcome(ZeroStep, "failed to parse email node metadata", ec)}
       ELSE IF fn.kind = "nil" THEN {completed}
       ELSE IF fn.kind = "err"
       THEN {Sent(Outcome(ZeroStep, "failed to send email", ec), mail)}
       ELSE {Sent(completed, mail)}

\* fn is the injected SMSFunc: nil, failing, or succeeding.
SMSHandler(fn, ec, node) ==
    LET md == node.Metadata
        phone == GetString(ec, "form.phone")
        text == [to |-> phone, subject |-> "",
                 body |-> IF md.template = "" THEN AlertText(ec)
                          ELSE [name |-> md.template, city |-> "", temperature |-> 0]]
    IN IF phone = "" THEN {Outcome(ZeroStep, "recipient phone not provided in form data", ec)}
       ELSE IF ~md.empty /\ ~md.valid
       THEN {Outcome(ZeroStep, "failed to parse SMS node metadata", ec)}
       ELSE IF fn.kind = "nil" THEN {Outcome(ZeroStep, "SMS client not configured", ec)}
       ELSE IF fn.kind = "err" THEN {Sent(Outcome(ZeroStep, "failed to send SMS", ec), text)}
       ELSE {Sent(Outcome(CompletedStep(ec, "sms", node,
                            [keys |-> {"message", "smsContent"},
                             conditionResult |-> "none"]),
                          "nil", ec),
                  text)}

\* The outputs an arbitrary NodeHandler implementation may put in its step.
CustomOutputs ==
    {[keys |-> {"message"}, conditionResult |-> "none"]} \cup
    {[keys |-> {"conditionResult"}, conditionResult |-> r] : r \in {"true", "false", "nonbool"}}

\* Any other implementation of NodeHandler registered for type nodeType (the
\* mock, condition-mock and failing handlers of the engine's tests are of
\* this kind): it returns a completed step, or a partial step and an error.
CustomHandler(nodeType, ec, node) ==
    {Outcome(CompletedStep(ec, nodeType, node, o), "nil", ec) : o \in CustomOutputs}
    \cup
    {Outcome([StepNumber |-> ec.StepNumber, NodeType |-> nodeType, NodeID |-> node.ID,
              Status |-> "", Output |-> NilOutput, Error |-> ""],
             "handler failed", ec)}

\* The engine tests' mockHandler with a message output: it always succeeds.
MockHandler(nodeType, ec, node) ==
    {Outcome(CompletedStep(ec, nodeType, node, MessageOutput), "nil", ec)}

\* The engine tests' slowHandler: it never looks at ec.Ctx.
SlowHandler(ec, node) ==
    {Outcome(CompletedStep(ec, "slow", node, MessageOutput), "nil", ec)}

\* handler.NodeType()
NodeType(h) == h.nodeType

\* handler.Execute(ec, node): the outcomes the handler h can produce.
HandlerExecute(h, deps, ec, node) ==
    CASE h.impl = "StartHandler" -> StartHandler(ec, node)
      [] h.impl = "EndHandler" -> EndHandler(ec, node)
      [] h.impl = "FormHandler" -> FormHandler(ec, node)
      [] h.impl = "WeatherHandler" -> WeatherHandler(deps.weatherFn, ec, node)
      [] h.impl = "ConditionHandler" -> ConditionHandler(ec, node)
      [] h.impl = "EmailHandler" -> EmailHandler(deps.emailFn, ec, node)
      [] h.impl = "SMSHandler" -> SMSHandler(deps.smsFn, ec, node)
      [] h.impl = "mockHandler" -> MockHandler(h.nodeType, ec, node)
      [] h.impl = "slowHandler" -> SlowHandler(ec, node)
      [] OTHER -> CustomHandler(h.nodeType, ec, node)

(* ----------------------------- Registry -------------------------------- *)

NewRegistry == <<>>

\* A registration that keeps the handler a type already has.
Register_KeepsFirst(r, handler) ==
    IF NodeType(handler) \in DOMAIN r THEN r ELSE MapSet(r, NodeType(handler), handler)

Register(r, handler) == MapSet(r, NodeType(handler), handler)

\* Get's second result.
HasHandler(r, nodeType) == nodeType \in DOMAIN r

\* Get's first result, for a type that HasHandler.
Get(r, nodeType) == r[nodeType]

\* The orders in which ranging over a map with key set S can yield its keys.
Orders(S) == {seq \in [1..Cardinality(S) -> S] : \A i, j \in 1..Cardinality(S) : seq[i] = seq[j] => i = j}

\* NodeTypes: the keys of the map, in one of the orders ranging over it can take.
NodeTypes(r) == Orders(DOMAIN r)

\* The zero value of the NodeHandler interface.
NilHandler == [impl |-> "nil", nodeType |-> ""]

\* A reader that does not wait for the writer.
CanRLock_Always(m) == TRUE

\* mu.RLock() returns once no writer holds the mutex.
CanRLock(m) == ~m.writer

\* mu.Lock() returns once neither a writer nor a reader holds the mutex.
CanLock(m) == ~m.writer /\ m.readers = 0

\* The goroutines that call the methods of one Registry.
Goroutines == {"g1", "g2"}

\* A goroutine's call: the method (op), the handler or type passed, where the
\* goroutine is (at), and what it read from the map: Get's two results, or
\* the list NodeTypes built; seen counts the writes made before the read,
\* n the calls the goroutine has made.
Call(op, at, h, t, n) ==
    [op |-> op, at |-> at, h |-> h, t |-> t, n |-> n,
     got |-> NilHandler, found |-> FALSE, types |-> <<>>, seen |-> 0]

NoCall == Call("none", "idle", NilHandler, "", 0)

RECURSIVE RegisterAll(_, _)
RegisterAll(r, hs) ==
    IF hs = <<>> THEN r ELSE RegisterAll(Register(r, Head(hs)), Tail(hs))

Handler(impl, nodeType) == [impl |-> impl, nodeType |-> nodeType]

\* Service.createRegistry: the standard handlers.
createRegistry ==
    RegisterAll(NewRegistry,
        << Handler("StartHandler", "start"), Handler("EndHandler", "end"),
           Handler("FormHandler", "form"), Handler("WeatherHandler", "integration"),
           Handler("ConditionHandler", "condition"), Handler("EmailHandler", "email"),
           Handler("SMSHandler", "sms") >>)

(* ----------------------------- Executor -------------------------------- *)

VARIABLES
    ctx,            \* the context.Context handed to Execute
    graph,          \* the *Graph handed to Execute
    registry,       \* Registry.handlers of the executor's registry
    deps,           \* the functions injected into the standard handlers
    initialState,   \* the initialState map handed to Execute
    pc,             \* "idle" before Execute, "loop" at the top of the traversal loop, "returned"
    ec,             \* the run's ExecutionContext
    currentNodeID,  \* Execute's local of that name
    visited,        \* the ids marked in Execute's visited map
    steps,          \* Execute's local slice of steps
    result,         \* what Execute returned: [steps, err]
    invoked,        \* ids of the nodes whose handler was invoked, in order
    iterations,     \* number of times the body of the traversal loop was entered
    mu,             \* Registry.mu: whether a writer holds it, and how many readers
    calls,          \* per goroutine, the Registry method it is in and how far it got
    registered,     \* the handlers written to Registry.handlers, in the order of the writes
    runs,           \* per concurrent call of Execute, its locals and what it returned
    heap,           \* the ExecutionContext objects allocated by the concurrent calls
    call,           \* one call of a handler's Execute: its arguments and what it returned
    ops,            \* the AddNode and AddEdge calls made on the graph, in order
    db,             \* the execution records the repository holds
    response        \* what HandleExecuteWorkflow wrote to the ResponseWriter

vars == <<ctx, graph, registry, deps, initialState, pc, ec, currentNodeID, visited,
          steps, result, invoked, iterations, mu, calls, registered, runs, heap,
          call, ops, db, response>>

\* What belongs to a handler called on its own, to the construction of a
\* graph, and to the HTTP handler around Execute.
around == <<call, ops, db, response>>

\* What belongs to the goroutines that call the Registry's methods, and to
\* the calls of Execute that run side by side.
outside == <<mu, calls, registered, runs, heap, around>>

inputs == <<ctx, graph, registry, deps, initialState>>

\* The arguments and dependencies of Execute other than initialState.
given == <<ctx, graph, registry, deps>>

\* A context built on the caller's map instead of a map of its own.
CallerState_Aliased(initial, state) == state

\* The caller's initialState map once the context's State holds state: the
\* context has a map of its own, made by NewExecutionContext, into which
\* Execute copies and handlers write, so the caller's map is as it was.
CallerState(initial, state) == initial

NoResult == [steps |-> <<>>, err |-> "none"]

\* The target of the first edge labelled handleToFind; NoNode if there is none.
RECURSIVE FindHandle(_, _)
FindHandle(edges, handleToFind) ==
    IF edges = <<>> THEN NoNode
    ELSE IF Head(edges).SourceHandle = handleToFind THEN Head(edges).TargetID
    ELSE FindHandle(Tail(edges), handleToFind)

HasHandle(edges, handleToFind) ==
    \E i \in 1..Len(edges) : edges[i].SourceHandle = handleToFind

\* A selection that ignores the condition result.
getNextNode_FirstEdge(g, nodeID, step) ==
    LET edges == GetOutgoingEdges(g, nodeID) IN
    IF Len(edges) = 0 THEN NoNode ELSE edges[1].TargetID

\* A selection that gives up when no edge carries the wanted label.
getNextNode_Strict(g, nodeID, step) ==
    LET edges == GetOutgoingEdges(g, nodeID) IN
    IF Len(edges) = 0 THEN NoNode
    ELSE IF step.Output.conditionResult \in {"true", "false"}
         THEN FindHandle(edges, step.Output.conditionResult)
         ELSE edges[1].TargetID

\* getNextNode: the target to follow after step was produced at nodeID.
getNextNode(g, nodeID, step) ==
    LET edges == GetOutgoingEdges(g, nodeID) IN
    IF Len(edges) = 0 THEN NoNode
    ELSE IF step.Output.conditionResult \in {"true", "false"}
            /\ HasHandle(edges, step.Output.conditionResult)
         THEN FindHandle(edges, step.Output.conditionResult)
         ELSE edges[1].TargetID

\* A traversal that forgets to mark the node.
MarkVisited_Forgets(v, id) == v

\* visited[currentNodeID] = true
MarkVisited(v, id) == v \cup {id}

\* A traversal that appends the handler's step as it came back.
FailedStep_Unmarked(step, err) == step

\* The step appended when the handler returned err.
FailedStep(step, err) == [step EXCEPT !.Status = "failed", !.Error = err]

\* A traversal that stops after its first step.
LoopEnds_AfterFirst(node, nextNodeID) == TRUE

\* A traversal without the break at an end node.
LoopEnds_NoBreak(node, nextNodeID) == nextNodeID = NoNode

\* Whether the loop is left after a completed step at node: the break at an
\* end node, or the loop condition failing for an empty next id.
LoopEnds(node, nextNodeID) == node.Type = "end" \/ nextNodeID = NoNode

Return(s, e) ==
    /\ pc' = "returned"
    /\ result' = [steps |-> s, err |-> e]

\* A beginning that leaves initialState out of the new context.
ExecuteBegin_NoCopy ==
    /\ pc = "idle"
    /\ IF Validate(graph) # "nil"
       THEN /\ Return(<<>>, Validate(graph))
            /\ UNCHANGED <<ec, currentNodeID>>
       ELSE /\ ec' = NewExecutionContext(ctx)
            /\ currentNodeID' = GetStartNode(graph)
            /\ pc' = "loop"
            /\ UNCHANGED result
    /\ UNCHANGED <<inputs, outside, visited, steps, invoked, iterations>>

\* Execute up to the first test of the loop condition: validation, the new
\* context, the copy of initialState, the start node.
ExecuteBegin ==
    /\ pc = "idle"
    /\ IF Validate(graph) # "nil"
       THEN /\ Return(<<>>, Validate(graph))
            /\ UNCHANGED <<ec, currentNodeID, initialState>>
       ELSE /\ ec' = [NewExecutionContext(ctx) EXCEPT !.State = initialState]
            /\ initialState' = CallerState(initialState, ec'.State)
            /\ currentNodeID' = GetStartNode(graph)
            /\ pc' = "loop"
            /\ UNCHANGED result
    /\ UNCHANGED <<given, outside, visited, steps, invoked, iterations>>

\* An iteration that finds currentNodeID already visited.
CycleDetected ==
    /\ pc = "loop"
    /\ currentNodeID \in visited
    /\ iterations' = iterations + 1
    /\ Return(<<>>, "cycle detected")
    /\ UNCHANGED <<inputs, outside, ec, currentNodeID, visited, steps, invoked>>

\* An iteration whose node id is not in the graph.
NodeNotFound ==
    /\ pc = "loop"
    /\ currentNodeID \notin visited
    /\ ~HasNode(graph, currentNodeID)
    /\ iterations' = iterations + 1
    /\ visited' = MarkVisited(visited, currentNodeID)
    /\ Return(<<>>, "node not found")
    /\ UNCHANGED <<inputs, outside, ec, currentNodeID, steps, invoked>>

\* An iteration whose node type has no registered handler.
NoHandler ==
    /\ pc = "loop"
    /\ currentNodeID \notin visited
    /\ HasNode(graph, currentNodeID)
    /\ ~HasHandler(registry, GetNode(graph, currentNodeID).Type)
    /\ iterations' = iterations + 1
    /\ visited' = MarkVisited(visited, currentNodeID)
    /\ Return(<<>>, "no handler for node type")
    /\ UNCHANGED <<inputs, outside, ec, currentNodeID, steps, invoked>>

\* The rest of an iteration whose handler is invoked and returns o.
Invoke(o) ==
    LET node == GetNode(graph, currentNodeID) IN
    /\ iterations' = iterations + 1
    /\ visited' = MarkVisited(visited, currentNodeID)
    /\ invoked' = Append(invoked, currentNodeID)
    /\ ec' = o.ec
    /\ IF o.err # "nil"
       THEN /\ steps' = Append(steps, FailedStep(o.step, o.err))
            /\ Return(steps', o.err)
            /\ UNCHANGED currentNodeID
       ELSE LET nextNodeID == getNextNode(graph, currentNodeID, o.step) IN
            /\ steps' = Append(steps, o.step)
            /\ IF node.Type = "end"
               THEN UNCHANGED currentNodeID
               ELSE currentNodeID' = nextNodeID
            /\ IF LoopEnds(node, nextNodeID)
               THEN Return(steps', "nil")
               ELSE UNCHANGED <<pc, result>>
    /\ initialState' = CallerState(initialState, o.ec.State)
    /\ UNCHANGED <<given, outside>>

\* The iteration reaches the handler call.
Ready ==
    /\ pc = "loop"
    /\ currentNodeID \notin visited
    /\ HasNode(graph, currentNodeID)
    /\ HasHandler(registry, GetNode(graph, currentNodeID).Type)

\* A call of the handler without the increment before it.
HandlerOutcomes_NoIncrement ==
    LET node == GetNode(graph, currentNodeID)
        handler == Get(registry, node.Type)
    IN HandlerExecute(handler, deps, ec, node)

\* ec.StepNumber++ and handler.Execute(ec, node)
HandlerOutcomes ==
    LET node == GetNode(graph, currentNodeID)
        handler == Get(registry, node.Type)
    IN HandlerExecute(handler, deps, [ec EXCEPT !.StepNumber = @ + 1], node)

HandlerFails ==
    /\ Ready
    /\ \E o \in HandlerOutcomes : o.err # "nil" /\ Invoke(o)

StepCompleted ==
    /\ Ready
    /\ \E o \in HandlerOutcomes : o.err = "nil" /\ Invoke(o)

(* --------------------------- specification ----------------------------- *)

\* Edges leave "n1" and "n2" only: "n3" is a node without outgoing edges.
EdgeSources == {"n1", "n2"}

Edges == [SourceID : EdgeSources, TargetID : NodeIDs, SourceHandle : SourceHandles]

\* Types of the nodes of the generated graphs; "unknown_type" never has a
\* handler, "absent" leaves the id out of the graph.
GenericTypes == {"end", "condition", "task", "unknown_type"}

Node(id, type, md) == [ID |-> id, Type |-> type, Metadata |-> md]

NodeList(t1, t2, t3) ==
    << Node("n1", t1, NoMetadata) >>
    \o (IF t2 = "absent" THEN <<>> ELSE << Node("n2", t2, NoMetadata) >>)
    \o (IF t3 = "absent" THEN <<>> ELSE << Node("n3", t3, NoMetadata) >>)

\* A node has at most as many outgoing edges as there are branches to label.
MaxOut == Cardinality(SourceHandles \ {""})

OutDegree(es, id) == Cardinality({i \in 1..Len(es) : es[i].SourceID = id})

EdgeLists ==
    {es \in UNION {[1..n -> Edges] : n \in 0..MaxEdges} :
        \A id \in EdgeSources : OutDegree(es, id) <= MaxOut}

\* The start and end handlers of package handlers, and arbitrary handlers
\* for "condition" and "task"; none for "unknown_type".
customRegistry ==
    RegisterAll(NewRegistry,
        << Handler("StartHandler", "start"), Handler("EndHandler", "end"),
           Handler("custom", "condition"), Handler("custom", "task") >>)

NoDeps ==
    [weatherFn |-> [kind |-> "nil", temperature |-> 0], emailFn |-> [kind |-> "nil"],
     smsFn |-> [kind |-> "nil"]]

\* The functions a service injects; its SMS client delivers.
Deps(w, e) == [weatherFn |-> w, emailFn |-> e, smsFn |-> [kind |-> "ok"]]

\* A handler call that was not made.
NoHandlerCall ==
    [made |-> FALSE, handler |-> NilHandler, node |-> Node("", "", NoMetadata),
     ec |-> NewExecutionContext("background"),
     outcome |-> Outcome(ZeroStep, "none", NewExecutionContext("background"))]

\* Nothing was written to the ResponseWriter.
NoResponse == [code |-> "", status |-> "", steps |-> <<>>]

\* No handler is called on its own, the graph was built before, and no
\* request is being served.
NothingAround ==
    /\ call = NoHandlerCall
    /\ ops = <<>>
    /\ db = <<>>
    /\ response = NoResponse

\* No goroutine is calling the registry while the run uses it.
RegistryIdle ==
    /\ mu = [writer |-> FALSE, readers |-> 0]
    /\ calls = [g \in Goroutines |-> NoCall]
    /\ registered = <<>>

\* The calls of Execute that run side by side.
RunIDs == {"r1", "r2"}

\* The locals of one call of Execute: ecRef is its *ExecutionContext.
Run(pcOf, init, ref, id, seen, ss, res) ==
    [pc |-> pcOf, initialState |-> init, ecRef |-> ref, currentNodeID |-> id,
     visited |-> seen, steps |-> ss, result |-> res]

\* A call that has not begun, to be made with initialState init.
IdleRun(init) == Run("idle", init, 0, NoNode, {}, <<>>, NoResult)

\* No call of Execute runs beside the one the run variables describe.
NoRuns ==
    /\ runs = [r \in RunIDs |-> IdleRun(<<>>)]
    /\ heap = <<>>

\* Execute was not called yet.
NotRunning ==
    /\ pc = "idle"
    /\ ec = NewExecutionContext(ctx)
    /\ currentNodeID = NoNode
    /\ visited = {}
    /\ steps = <<>>
    /\ result = NoResult
    /\ invoked = <<>>
    /\ iterations = 0

InitRun ==
    /\ NotRunning
    /\ RegistryIdle
    /\ NoRuns
    /\ NothingAround

\* Edges of a graph without a start node, which Execute rejects before it
\* looks at an edge: enough to link its three nodes.
MinEdges == Cardinality(NodeIDs) - 1

\* Graphs of up to three nodes and MaxEdges edges, run with arbitrary handlers.
InitGeneric ==
    /\ \E t1 \in {"start", "task"} :
       \E t2 \in GenericTypes \cup {"absent"} : \E t3 \in {"end", "absent"} :
       \E es \in EdgeLists :
          /\ t1 = "task" => Len(es) <= MinEdges
          /\ graph = buildEngineGraph(NodeList(t1, t2, t3), es)
    /\ ctx = "background"
    /\ registry = customRegistry
    /\ deps = NoDeps
    /\ initialState = <<>>
    /\ InitRun

\* The sample weather workflow:
\* start -> form -> integration -> condition -> {true: email -> end, false: end}.
Operators ==
    {"greater_than", "less_than", "equals", "equal_to", "greater_than_or_equal",
     "less_than_or_equal", "unsupported", ""}

ConditionMetadata(operator, threshold) ==
    [valid |-> TRUE, empty |-> FALSE, operator |-> operator, threshold |-> threshold,
     subject |-> "", template |-> ""]

WorkflowNodes(md) ==
    << Node("start-1", "start", NoMetadata), Node("form-1", "form", NoMetadata),
       Node("weather-1", "integration", NoMetadata), Node("condition-1", "condition", md),
       Node("email-1", "email", NoMetadata), Node("end-1", "end", NoMetadata) >>

Edge(s, t, h) == [SourceID |-> s, TargetID |-> t, SourceHandle |-> h]

\* trueFirst tells which of the two edges of the condition node is declared first.
WorkflowEdges(trueFirst) ==
    << Edge("start-1", "form-1", ""), Edge("form-1", "weather-1", ""),
       Edge("weather-1", "condition-1", "") >>
    \o (IF trueFirst
        THEN << Edge("condition-1", "email-1", "true"), Edge("condition-1", "end-1", "false") >>
        ELSE << Edge("condition-1", "end-1", "false"), Edge("condition-1", "email-1", "true") >>)
    \o << Edge("email-1", "end-1", "") >>

WeatherFuncs ==
    {[kind |-> "ok", temperature |-> t] : t \in 0..MaxTemp}
    \cup {[kind |-> "err", temperature |-> 0], [kind |-> "nil", temperature |-> 0]}

EmailFuncs == {[kind |-> "ok"], [kind |-> "err"]}

FormState(email, city) ==
    [k \in {"form.name", "form.email", "form.city"} |->
        StringVal(CASE k = "form.name" -> "Alice"
                    [] k = "form.email" -> email
                    [] k = "form.city" -> city)]

\* initialState as given by a caller that also presets the temperature.
PresetState(email, city, preset) ==
    IF preset
    THEN MapSet(FormState(email, city), "weather.temperature", FloatVal(MaxTemp))
    ELSE FormState(email, city)

InitWorkflow ==
    /\ \E op \in Operators, th \in 0..MaxTemp, trueFirst \in BOOLEAN :
          graph = buildEngineGraph(WorkflowNodes(ConditionMetadata(op, th)),
                                   WorkflowEdges(trueFirst))
    /\ ctx = "background"
    /\ registry = createRegistry
    /\ \E w \in WeatherFuncs, e \in EmailFuncs : deps = Deps(w, e)
    /\ \E email \in {"", "alice@example.com"}, city \in {"", "Sydney"}, preset \in BOOLEAN :
          initialState = PresetState(email, city, preset)
    /\ InitRun

\* The registry of the cancellation test: mock handlers for start and end,
\* the slow handler for "slow".
slowRegistry ==
    RegisterAll(NewRegistry,
        << Handler("mockHandler", "start"), Handler("slowHandler", "slow"),
           Handler("mockHandler", "end") >>)

\* The cancellation test: start-1 -> slow-1 -> end-1, run with a context
\* that is already cancelled and a nil initialState.
InitCancelled ==
    /\ graph = buildEngineGraph(
                  << Node("start-1", "start", NoMetadata), Node("slow-1", "slow", NoMetadata),
                     Node("end-1", "end", NoMetadata) >>,
                  << Edge("start-1", "slow-1", ""), Edge("slow-1", "end-1", "") >>)
    /\ ctx = "cancelled"
    /\ registry = slowRegistry
    /\ deps = NoDeps
    /\ initialState = <<>>
    /\ InitRun

\* A workflow that asks nothing of the weather service:
\* start -> condition -> {true: email or sms -> end, false: end}.
DirectNodes(md, notifyType) ==
    << Node("start-2", "start", NoMetadata), Node("condition-2", "condition", md),
       Node("notify-2", notifyType, NoMetadata), Node("end-2", "end", NoMetadata) >>

\* onward is the target of the notification node's edge.
DirectEdgesTo(onward) ==
    << Edge("start-2", "condition-2", ""), Edge("condition-2", "notify-2", "true"),
       Edge("condition-2", "end-2", "false"), Edge("notify-2", onward, "") >>

DirectEdges == DirectEdgesTo("end-2")

\* initialState of a caller that knows no temperature: the key is left out,
\* or holds a string when mistyped.
DirectState(mistyped) ==
    LET form == MapSet(FormState("alice@example.com", "Sydney"),
                       "form.phone", StringVal("+61400000000"))
    IN IF mistyped THEN MapSet(form, "weather.temperature", StringVal("hot")) ELSE form

InitDirect ==
    /\ \E op \in Operators, th \in 0..MaxTemp, notifyType \in {"email", "sms"} :
          graph = buildEngineGraph(DirectNodes(ConditionMetadata(op, th), notifyType),
                                   DirectEdges)
    /\ ctx = "background"
    /\ registry = createRegistry
    /\ deps = Deps([kind |-> "nil", temperature |-> 0], [kind |-> "ok"])
    /\ \E mistyped \in BOOLEAN : initialState = DirectState(mistyped)
    /\ InitRun

Init == InitGeneric \/ InitWorkflow \/ InitCancelled \/ InitDirect

Next ==
    \/ ExecuteBegin
    \/ CycleDetected
    \/ NodeNotFound
    \/ NoHandler
    \/ HandlerFails
    \/ StepCompleted

Spec == Init /\ [][Next]_vars

\* Execute runs on one goroutine that is never suspended for good.
FairSpec == Spec /\ WF_vars(Next)

TypeOK ==
    /\ pc \in {"idle", "loop", "returned"}
    /\ visited \subseteq NodeIDs \cup DOMAIN graph.nodes
    /\ iterations \in Nat
    /\ Len(invoked) <= iterations

(* ------------------- goroutines sharing one Registry ------------------- *)

\* Number of Registry method calls made by all goroutines together.
MaxCalls == 3

\* The handlers passed to Register and the types passed to Get; no handler
\* has the type "condition".
RegHandlers ==
    {Handler("StartHandler", "start"), Handler("mockHandler", "start"),
     Handler("EndHandler", "end")}

RegTypes == {"start", "end", "condition"}

\* Calls made so far by the goroutines of S.
RECURSIVE CallsMade(_)
CallsMade(S) ==
    IF S = {} THEN 0
    ELSE LET g == CHOOSE x \in S : TRUE IN calls[g].n + CallsMade(S \ {g})

\* g is inside the section of its method that mu protects.
Holding(g) == calls[g].at \in {"locked", "writing", "accessed"}

\* g may enter a method: it is in none, and calls are left.
MayCall(g) ==
    /\ ~Holding(g)
    /\ CallsMade(Goroutines) < MaxCalls

\* Another goroutine is in the middle of assigning to the map.
Racing(g) == \E x \in Goroutines \ {g} : calls[x].at = "writing"

execVars == <<ctx, graph, deps, initialState, pc, ec, currentNodeID, visited, steps,
              result, invoked, iterations, runs, heap, around>>

\* Register up to the return of mu.Lock().
RegisterLock(g) ==
    /\ MayCall(g)
    /\ CanLock(mu)
    /\ \E h \in RegHandlers : calls' = [calls EXCEPT ![g] = Call("Register", "locked", h, "", calls[g].n + 1)]
    /\ mu' = [mu EXCEPT !.writer = TRUE]
    /\ UNCHANGED <<registry, registered, execVars>>

\* r.handlers[handler.NodeType()] = handler, from its first store ...
RegisterWriteBegin(g) ==
    /\ calls[g].op = "Register"
    /\ calls[g].at = "locked"
    /\ calls' = [calls EXCEPT ![g].at = "writing"]
    /\ UNCHANGED <<registry, mu, registered, execVars>>

\* ... to its last.
RegisterWriteEnd(g) ==
    /\ calls[g].op = "Register"
    /\ calls[g].at = "writing"
    /\ registry' = Register(registry, calls[g].h)
    /\ registered' = Append(registered, calls[g].h)
    /\ calls' = [calls EXCEPT ![g].at = "accessed"]
    /\ UNCHANGED <<mu, execVars>>

\* The deferred mu.Unlock() and the return.
RegisterUnlock(g) ==
    /\ calls[g].op = "Register"
    /\ calls[g].at = "accessed"
    /\ mu' = [mu EXCEPT !.writer = FALSE]
    /\ calls' = [calls EXCEPT ![g].at = "returned"]
    /\ UNCHANGED <<registry, registered, execVars>>

\* Get up to the return of mu.RLock().
GetRLock(g) ==
    /\ MayCall(g)
    /\ CanRLock(mu)
    /\ \E t \in RegTypes : calls' = [calls EXCEPT ![g] = Call("Get", "locked", NilHandler, t, calls[g].n + 1)]
    /\ mu' = [mu EXCEPT !.readers = @ + 1]
    /\ UNCHANGED <<registry, registered, execVars>>

\* h, ok := r.handlers[nodeType]; a read that races with a write can yield
\* any handler and either flag.
GetRead(g) ==
    /\ calls[g].op = "Get"
    /\ calls[g].at = "locked"
    /\ \E found \in BOOLEAN, got \in RegHandlers \cup {NilHandler} :
          /\ ~Racing(g) =>
                /\ found = HasHandler(registry, calls[g].t)
                /\ got = IF found THEN Get(registry, calls[g].t) ELSE NilHandler
          /\ calls' = [calls EXCEPT ![g].at = "accessed", ![g].found = found,
                                    ![g].got = got, ![g].seen = Len(registered)]
    /\ UNCHANGED <<registry, mu, registered, execVars>>

\* NodeTypes up to the return of mu.RLock().
NodeTypesRLock(g) ==
    /\ MayCall(g)
    /\ CanRLock(mu)
    /\ calls' = [calls EXCEPT ![g] = Call("NodeTypes", "locked", NilHandler, "", calls[g].n + 1)]
    /\ mu' = [mu EXCEPT !.readers = @ + 1]
    /\ UNCHANGED <<registry, registered, execVars>>

\* The loop over r.handlers; a loop that races with a write can yield any
\* list of types.
NodeTypesRead(g) ==
    /\ calls[g].op = "NodeTypes"
    /\ calls[g].at = "locked"
    /\ \E types \in UNION {Orders(S) : S \in SUBSET RegTypes} :
          /\ ~Racing(g) => types \in NodeTypes(registry)
          /\ calls' = [calls EXCEPT ![g].at = "accessed", ![g].types = types,
                                    ![g].seen = Len(registered)]
    /\ UNCHANGED <<registry, mu, registered, execVars>>

\* The deferred mu.RUnlock() of Get and NodeTypes, and the return.
RUnlock(g) ==
    /\ calls[g].op \in {"Get", "NodeTypes"}
    /\ calls[g].at = "accessed"
    /\ mu' = [mu EXCEPT !.readers = @ - 1]
    /\ calls' = [calls EXCEPT ![g].at = "returned"]
    /\ UNCHANGED <<registry, registered, execVars>>

\* A new registry and goroutines that have not called it yet.
RegistryInit ==
    /\ registry = NewRegistry
    /\ mu = [writer |-> FALSE, readers |-> 0]
    /\ calls = [g \in Goroutines |-> NoCall]
    /\ registered = <<>>
    /\ ctx = "background"
    /\ graph = NewGraph
    /\ deps = NoDeps
    /\ initialState = <<>>
    /\ pc = "idle"
    /\ ec = NewExecutionContext(ctx)
    /\ currentNodeID = NoNode
    /\ visited = {}
    /\ steps = <<>>
    /\ result = NoResult
    /\ invoked = <<>>
    /\ iterations = 0
    /\ NoRuns
    /\ NothingAround

RegistryNext ==
    \E g \in Goroutines :
        \/ RegisterLock(g)
        \/ RegisterWriteBegin(g)
        \/ RegisterWriteEnd(g)
        \/ RegisterUnlock(g)
        \/ GetRLock(g)
        \/ GetRead(g)
        \/ NodeTypesRLock(g)
        \/ NodeTypesRead(g)
        \/ RUnlock(g)

RegistrySpec == RegistryInit /\ [][RegistryNext]_vars

(* ---------------- calls of Execute running side by side ---------------- *)

\* An allocation that hands every call the same object.
Alloc_Shared(h) == 1

\* &ExecutionContext{...}: the address of a new object on the heap h.
Alloc(h) == Len(h) + 1

\* The heap after the object at ref was set to c.
Store(h, ref, c) == IF ref <= Len(h) THEN [h EXCEPT ![ref] = c] ELSE Append(h, c)

\* The new context with initialState copied into it.
FirstContext(init) == [NewExecutionContext(ctx) EXCEPT !.State = init]

Returned(run, ss, e) == [run EXCEPT !.pc = "returned", !.result = [steps |-> ss, err |-> e]]

\* Execute up to the first test of the loop condition, with ref the address
\* of the context it created.
Begun(run, ref) ==
    IF Validate(graph) # "nil"
    THEN Returned(run, <<>>, Validate(graph))
    ELSE [run EXCEPT !.pc = "loop", !.ecRef = ref, !.currentNodeID = GetStartNode(graph)]

\* One iteration of the traversal loop of a call whose context holds c: the
\* locals and the context it can leave behind.
Iterations(run, c) ==
    LET id == run.currentNodeID
        marked == [run EXCEPT !.visited = MarkVisited(@, id)]
    IN
    IF id \in run.visited
    THEN {[run |-> Returned(run, <<>>, "cycle detected"), ec |-> c]}
    ELSE IF ~HasNode(graph, id)
    THEN {[run |-> Returned(marked, <<>>, "node not found"), ec |-> c]}
    ELSE IF ~HasHandler(registry, GetNode(graph, id).Type)
    THEN {[run |-> Returned(marked, <<>>, "no handler for node type"), ec |-> c]}
    ELSE
        LET node == GetNode(graph, id)
            handler == Get(registry, node.Type)
            After(o) ==
                IF o.err # "nil"
                THEN LET ss == Append(run.steps, FailedStep(o.step, o.err)) IN
                     Returned([marked EXCEPT !.steps = ss], ss, o.err)
                ELSE LET nextNodeID == getNextNode(graph, id, o.step)
                         ss == Append(run.steps, o.step)
                         moved == [marked EXCEPT
                                     !.steps = ss,
                                     !.currentNodeID =
                                         IF node.Type = "end" THEN @ ELSE nextNodeID]
                     IN IF LoopEnds(node, nextNodeID) THEN Returned(moved, ss, "nil") ELSE moved
        IN {[run |-> After(o), ec |-> o.ec] :
               o \in HandlerExecute(handler, deps, [c EXCEPT !.StepNumber = @ + 1], node)}

\* Call r begins.
RunBegin(r) ==
    /\ runs[r].pc = "idle"
    /\ LET ref == Alloc(heap) IN
       /\ runs' = [runs EXCEPT ![r] = Begun(runs[r], ref)]
       /\ heap' = IF Validate(graph) # "nil" THEN heap
                  ELSE Store(heap, ref, FirstContext(runs[r].initialState))
    /\ UNCHANGED <<inputs, pc, ec, currentNodeID, visited, steps, result, invoked,
                   iterations, mu, calls, registered, around>>

\* Call r makes one iteration of its loop.
RunIterate(r) ==
    /\ runs[r].pc = "loop"
    /\ \E n \in Iterations(runs[r], heap[runs[r].ecRef]) :
          /\ runs' = [runs EXCEPT ![r] = n.run]
          /\ heap' = [heap EXCEPT ![runs[r].ecRef] = n.ec]
    /\ UNCHANGED <<inputs, pc, ec, currentNodeID, visited, steps, result, invoked,
                   iterations, mu, calls, registered, around>>

\* Two calls on the sample workflow with the production registry, each with
\* its own initialState.
ConcurrentInit ==
    /\ \E th \in 0..MaxTemp :
          graph = buildEngineGraph(WorkflowNodes(ConditionMetadata("greater_than", th)),
                                   WorkflowEdges(TRUE))
    /\ ctx = "background"
    /\ registry = createRegistry
    /\ \E w \in WeatherFuncs, e \in EmailFuncs : deps = Deps(w, e)
    /\ initialState = <<>>
    /\ \E init \in [RunIDs ->
                       {PresetState(email, city, preset) :
                           email \in {"", "alice@example.com"}, city \in {"", "Sydney"},
                           preset \in BOOLEAN}] :
          runs = [r \in RunIDs |-> IdleRun(init[r])]
    /\ heap = <<>>
    /\ pc = "idle"
    /\ ec = NewExecutionContext(ctx)
    /\ currentNodeID = NoNode
    /\ visited = {}
    /\ steps = <<>>
    /\ result = NoResult
    /\ invoked = <<>>
    /\ iterations = 0
    /\ RegistryIdle
    /\ NothingAround

ConcurrentNext == \E r \in RunIDs : RunBegin(r) \/ RunIterate(r)

ConcurrentSpec == ConcurrentInit /\ [][ConcurrentNext]_vars

(* ---------------------- a graph under construction --------------------- *)

\* Number of AddNode and AddEdge calls made on the graph.
MaxOps == 4

\* One call on the graph: AddNode(node) or AddEdge(edge).
Op(name, node, edge) == [op |-> name, node |-> node, edge |-> edge]

\* The nodes passed to AddNode: two ids, each as a start node or a task.
OpNodes == {Node(id, t, NoMetadata) : id \in EdgeSources, t \in {"start", "task"}}

\* The edges passed to AddEdge: from either id to "n3", plain or labelled.
OpEdges == {Edge(id, "n3", h) : id \in EdgeSources, h \in {"", "true"}}

GraphAddNode ==
    /\ Len(ops) < MaxOps
    /\ \E node \in OpNodes :
          /\ graph' = AddNode(graph, node)
          /\ ops' = Append(ops, Op("AddNode", node, Edge("", "", "")))
    /\ UNCHANGED <<ctx, registry, deps, initialState, pc, ec, currentNodeID, visited,
                   steps, result, invoked, iterations, mu, calls, registered, runs,
                   heap, call, db, response>>

GraphAddEdge ==
    /\ Len(ops) < MaxOps
    /\ \E edge \in OpEdges :
          /\ graph' = AddEdge(graph, edge)
          /\ ops' = Append(ops, Op("AddEdge", Node("", "", NoMetadata), edge))
    /\ UNCHANGED <<ctx, registry, deps, initialState, pc, ec, currentNodeID, visited,
                   steps, result, invoked, iterations, mu, calls, registered, runs,
                   heap, call, db, response>>

\* A new graph, on which nothing was called yet.
GraphInit ==
    /\ graph = NewGraph
    /\ ops = <<>>
    /\ ctx = "background"
    /\ registry = NewRegistry
    /\ deps = NoDeps
    /\ initialState = <<>>
    /\ NotRunning
    /\ RegistryIdle
    /\ NoRuns
    /\ call = NoHandlerCall
    /\ db = <<>>
    /\ response = NoResponse

GraphNext == GraphAddNode \/ GraphAddEdge

GraphSpec == GraphInit /\ [][GraphNext]_vars

(* ------------------- the HTTP handler around Execute ------------------- *)

\* The payloads the wire format's StepOutput has a field for.
WirePayloads == {"formData", "apiResponse", "conditionResult", "emailContent"}

\* convertStepOutput: the typed StepOutput, given by whether Message was
\* set and which payload pointers are not nil.
convertStepOutput(output) ==
    [Message |-> "message" \in output.keys,
     payloads |-> output.keys \cap WirePayloads,
     conditionResult |-> output.conditionResult]

\* convertEngineSteps: one wire step per engine step, in order.
convertEngineSteps(engineSteps) ==
    [i \in 1..Len(engineSteps) |->
        [StepNumber |-> engineSteps[i].StepNumber,
         NodeType   |-> engineSteps[i].NodeType,
         Status     |-> engineSteps[i].Status,
         Error      |-> engineSteps[i].Error,
         Output     |-> convertStepOutput(engineSteps[i].Output)]]

\* The keys of the JSON object a wire StepOutput is written as and read
\* back from: message always, a payload only when its pointer is not nil.
JSONKeys(wireOutput) == {"message"} \cup wireOutput.payloads

\* A handler that reports every execution as completed.
executionStatus_Completed(err) == "completed"

\* The status HandleExecuteWorkflow gives the execution.
executionStatus(err) == IF err # "nil" THEN "failed" ELSE "completed"

\* The record handed to repo.CreateExecution.
WorkflowExecution(status, wire) == [Status |-> status, ExecutionTrace |-> wire]

\* The stored workflow fails graph.Validate(): 400, and Execute is not called.
RejectInvalid ==
    /\ pc = "idle"
    /\ response = NoResponse
    /\ Validate(graph) # "nil"
    /\ response' = [code |-> "400", status |-> "", steps |-> <<>>]
    /\ UNCHANGED <<inputs, pc, ec, currentNodeID, visited, steps, result, invoked,
                   iterations, mu, calls, registered, runs, heap, call, ops, db>>

\* The stored workflow passes graph.Validate() and Execute is called.
ServiceExecute ==
    /\ Validate(graph) = "nil"
    /\ ExecuteBegin

\* HandleExecuteWorkflow from the return of Execute on: the steps are
\* converted, the status is set, the record is created and the response is
\* written; or marshalling or CreateExecution fails and the answer is 500.
Respond ==
    /\ pc = "returned"
    /\ response = NoResponse
    /\ LET wire == convertEngineSteps(result.steps)
           status == executionStatus(result.err)
       IN \E saved \in BOOLEAN :
             IF saved
             THEN /\ db' = Append(db, WorkflowExecution(status, wire))
                  /\ response' = [code |-> "200", status |-> status, steps |-> wire]
             ELSE /\ db' = db
                  /\ response' = [code |-> "500", status |-> "", steps |-> <<>>]
    /\ UNCHANGED <<inputs, pc, ec, currentNodeID, visited, steps, result, invoked,
                   iterations, mu, calls, registered, runs, heap, call, ops>>

\* The workflows the repository can hold: the sample workflow; the workflow
\* without an integration node, its notification node of a type that may
\* have no handler and leading on to the end node, back to the start node
\* or to an id that is no node; and a workflow without a start node.
StoredGraphs ==
    {buildEngineGraph(WorkflowNodes(ConditionMetadata(op, th)), WorkflowEdges(trueFirst)) :
        op \in Operators, th \in 0..MaxTemp, trueFirst \in BOOLEAN}
    \cup
    {buildEngineGraph(DirectNodes(ConditionMetadata(op, MaxTemp), notifyType),
                      DirectEdgesTo(onward)) :
        op \in Operators, notifyType \in {"email", "sms", "webhook"},
        onward \in {"end-2", "start-2", "ghost-2"}}
    \cup
    {buildEngineGraph(<< Node("end-2", "end", NoMetadata) >>, <<>>)}

\* A request that passed the checks of its id and its form data (an email
\* address, a supported city) and whose workflow was loaded and built.
ServiceInit ==
    /\ graph \in StoredGraphs
    /\ ctx = "background"
    /\ registry = createRegistry
    /\ \E w \in WeatherFuncs \ {[kind |-> "nil", temperature |-> 0]}, e \in EmailFuncs :
          deps = Deps(w, e)
    /\ initialState = FormState("alice@example.com", "Sydney")
    /\ InitRun

ServiceNext ==
    \/ RejectInvalid
    \/ ServiceExecute
    \/ CycleDetected
    \/ NodeNotFound
    \/ NoHandler
    \/ HandlerFails
    \/ StepCompleted
    \/ Respond

ServiceSpec == ServiceInit /\ [][ServiceNext]_vars

(* -------------------- one handler called on its own -------------------- *)

\* Node metadata that is not valid JSON.
InvalidMetadata ==
    [valid |-> FALSE, empty |-> FALSE, operator |-> "", threshold |-> 0, subject |-> "",
     template |-> ""]

\* Metadata of an email node: {"subject": subject}, or {} for subject "".
SubjectMetadata(subject) ==
    [valid |-> TRUE, empty |-> FALSE, operator |-> "", threshold |-> 0,
     subject |-> subject, template |-> ""]

Metadatas ==
    {NoMetadata, InvalidMetadata, SubjectMetadata(""), SubjectMetadata("Storm Warning"),
     ConditionMetadata("less_than", MaxTemp)}

\* The state maps that leave key out or hold one of values under it.
Choices(key, values) == {<<>>} \cup {MapSet(<<>>, key, v) : v \in values}

\* The map that holds the entries of f and of g.
Merge(f, g) == [k \in (DOMAIN f) \cup (DOMAIN g) |-> IF k \in DOMAIN g THEN g[k] ELSE f[k]]

\* The states a handler can find in its context.
CallStates ==
    {Merge(Merge(e, c), Merge(p, t)) :
        e \in Choices("form.email", {StringVal(""), StringVal("alice@example.com")}),
        c \in Choices("form.city", {StringVal(""), StringVal("Sydney")}),
        p \in Choices("form.phone", {StringVal("+61400000000")}),
        t \in Choices("weather.temperature",
                      {StringVal("hot")} \cup {FloatVal(x) : x \in 0..MaxTemp})}

\* The handlers Service.createRegistry registers.
StandardHandlers == {createRegistry[t] : t \in DOMAIN createRegistry}

\* The context a test hands to a handler: a new context, its state set key
\* by key and its step counter past 0.
CallContext(state) ==
    [NewExecutionContext("background") EXCEPT !.State = state, !.StepNumber = @ + 1]

\* A handler of the standard set, built with a function that is nil, fails
\* or succeeds, is about to be called with some context and some node.
HandlerInit ==
    /\ \E h \in StandardHandlers, md \in Metadatas, state \in CallStates :
          call = [NoHandlerCall EXCEPT !.handler = h,
                                       !.node = Node("node-1", NodeType(h), md),
                                       !.ec = CallContext(state)]
    /\ \E w \in WeatherFuncs :
          deps = [weatherFn |-> w, emailFn |-> [kind |-> w.kind], smsFn |-> [kind |-> w.kind]]
    /\ ctx = "background"
    /\ graph = NewGraph
    /\ registry = createRegistry
    /\ initialState = <<>>
    /\ NotRunning
    /\ RegistryIdle
    /\ NoRuns
    /\ ops = <<>>
    /\ db = <<>>
    /\ response = NoResponse

\* handler.Execute(ec, node) is called and returns.
HandlerCall ==
    /\ ~call.made
    /\ \E o \in HandlerExecute(call.handler, deps, call.ec, call.node) :
          call' = [call EXCEPT !.made = TRUE, !.outcome = o]
    /\ UNCHANGED <<inputs, pc, ec, currentNodeID, visited, steps, result, invoked,
                   iterations, mu, calls, registered, runs, heap, ops, db, response>>

HandlerNext == HandlerCall

HandlerSpec == HandlerInit /\ [][HandlerNext]_vars

(* ------------------------------ claims --------------------------------- *)

NumNodes == Cardinality(DOMAIN graph.nodes)

\* The run is over: completed (err = "nil"), failed, or aborted on a cycle.
Final == pc = "returned" /\ result.err # "none"

HasCycleEdge ==
    \E id \in DOMAIN graph.adjacency : \E i \in 1..Len(graph.adjacency[id]) :
        graph.adjacency[id][i].TargetID \in visited

\* C1: for every graph that passes Validate, cyclic ones included, and every
\* registry whose handlers return, Execute terminates: the run reaches a
\* final state (completed, failed or cycle-aborted), and the body of the
\* traversal loop is never entered more than (number of nodes + 1) times.
C1_Terminates ==
    /\ [](iterations <= NumNodes + 1)
    /\ (Validate(graph) = "nil") ~> Final

\* A run over a cycle that used all of its (number of nodes + 1) iterations.
C1_Witness ==
    /\ Final
    /\ result.err = "cycle detected"
    /\ NumNodes >= 2
    /\ iterations = NumNodes + 1

NoDuplicates(seq) == \A i, j \in 1..Len(seq) : seq[i] = seq[j] => i = j

StepIDs(ss) == [i \in 1..Len(ss) |-> ss[i].NodeID]

\* C2: in every run a handler is invoked at most once per node id: no node
\* id occurs twice in the trace, and the trace is never longer than the
\* number of nodes of the graph.
C2_AtMostOncePerNode ==
    /\ NoDuplicates(invoked)
    /\ NoDuplicates(StepIDs(steps))
    /\ NoDuplicates(StepIDs(result.steps))
    /\ Len(steps) <= NumNodes
    /\ Len(result.steps) <= NumNodes

\* A run on a graph with an edge back to a visited node that executed every node.
C2_Witness ==
    /\ Final
    /\ HasCycleEdge
    /\ Len(invoked) = 3
    /\ NumNodes = 3

\* Errors Execute raises itself, as opposed to errors a handler returned.
TraversalErrors ==
    {"graph has no start node", "cycle detected", "node not found", "no handler for node type"}

HandlerFailed == Final /\ result.err \notin TraversalErrors \cup {"nil"}

\* C3: when the next node selected was already visited, Execute aborts with
\* a cycle-detected error and returns with it the steps accumulated so far,
\* one per node visited before the cycle was detected, not an empty trace.
C3_CycleKeepsSteps ==
    (Final /\ result.err = "cycle detected") =>
        /\ result.steps = steps
        /\ Len(result.steps) = Cardinality(visited)

\* C4: when traversal reaches a node whose type has no registered handler,
\* Execute returns an unknown-node-type error together with exactly the steps
\* of the nodes executed before it; the unknown node contributes no step.
C4_UnknownTypeKeepsSteps ==
    (Final /\ result.err = "no handler for node type") =>
        /\ result.steps = steps
        /\ Len(result.steps) = Len(invoked)
        /\ Len(result.steps) = Cardinality(visited) - 1

\* C5: when a handler returns an error, Execute appends exactly one step with
\* status failed and the error message after all the completed steps, returns
\* (steps, error) at once, and invokes no handler after the failing one.
C5_HandlerErrorHalts ==
    HandlerFailed =>
        /\ result.steps = steps
        /\ Len(steps) = Len(invoked)
        /\ Len(steps) = iterations
        /\ steps # <<>>
        /\ steps[Len(steps)].Status = "failed"
        /\ steps[Len(steps)].Error = result.err
        /\ \A i \in 1..(Len(steps) - 1) :
              steps[i].Status = "completed" /\ steps[i].NodeID = invoked[i]

\* A run whose third handler failed.
C5_Witness ==
    /\ HandlerFailed
    /\ Len(result.steps) = 3
    /\ result.steps[3].Status = "failed"

\* The transition appends a completed step for the node currentNodeID.
Completes ==
    /\ pc = "loop"
    /\ Len(steps') = Len(steps) + 1
    /\ steps'[Len(steps')].Status = "completed"

CountHandle(edges, h) == Cardinality({i \in 1..Len(edges) : edges[i].SourceHandle = h})

OneTrueOneFalse(edges) == CountHandle(edges, "true") = 1 /\ CountHandle(edges, "false") = 1

TargetOf(edges, h) == edges[CHOOSE i \in 1..Len(edges) : edges[i].SourceHandle = h].TargetID

\* The node whose handler was invoked last, and its outgoing edges.
LastNode == graph.nodes[invoked[Len(invoked)]]
LastEdges == GetOutgoingEdges(graph, invoked[Len(invoked)])
LastStep == steps[Len(steps)]

\* A completed step was just appended and the loop goes on.
Continuing == pc = "loop" /\ steps # <<>>

\* C6: at a condition node with one outgoing edge labelled true and one
\* labelled false, the next node visited is the target of the true edge when
\* the step's result is true and of the false edge when it is false, in
\* whichever order the two edges were declared.
C6_BranchByResult ==
    [][ \A r \in {"true", "false"} :
          ( /\ Completes
            /\ graph.nodes[currentNodeID].Type = "condition"
            /\ OneTrueOneFalse(GetOutgoingEdges(graph, currentNodeID))
            /\ steps'[Len(steps')].Output.conditionResult = r )
          => ( /\ pc' = "loop"
               /\ currentNodeID' = TargetOf(GetOutgoingEdges(graph, currentNodeID), r) )
      ]_vars

\* A true result took the true edge although the false edge is declared first.
C6_Witness ==
    /\ Continuing
    /\ LastNode.Type = "condition"
    /\ OneTrueOneFalse(LastEdges)
    /\ LastEdges[1].SourceHandle = "false"
    /\ LastStep.Output.conditionResult = "true"
    /\ currentNodeID = TargetOf(LastEdges, "true")
    /\ currentNodeID # LastEdges[1].TargetID

\* C7: when a condition step yields a boolean result and no outgoing edge of
\* the node carries the label for it, Execute does not fail: it follows the
\* node's first outgoing edge in declaration order.
C7_FallbackFirstEdge ==
    [][ \A r \in {"true", "false"} :
          ( /\ Completes
            /\ graph.nodes[currentNodeID].Type = "condition"
            /\ Len(GetOutgoingEdges(graph, currentNodeID)) > 0
            /\ ~HasHandle(GetOutgoingEdges(graph, currentNodeID), r)
            /\ steps'[Len(steps')].Output.conditionResult = r )
          => ( /\ pc' = "loop"
               /\ result' = result
               /\ currentNodeID' = GetOutgoingEdges(graph, currentNodeID)[1].TargetID )
      ]_vars

\* A false result at a condition node whose two edges are labelled true and "".
C7_Witness ==
    /\ Continuing
    /\ LastNode.Type = "condition"
    /\ Len(LastEdges) = 2
    /\ LastEdges[1].SourceHandle = "true"
    /\ LastEdges[2].SourceHandle = ""
    /\ LastStep.Output.conditionResult = "false"
    /\ currentNodeID = LastEdges[1].TargetID
    /\ currentNodeID # LastEdges[2].TargetID

\* C8: for every visited node whose type is not condition, Execute follows
\* the node's first outgoing edge in declaration order, whatever labels its
\* edges carry and whatever its step output contains, a conditionResult with
\* a boolean result included.
C8_NonConditionFirstEdge ==
    [][ ( /\ Completes
          /\ graph.nodes[currentNodeID].Type \notin {"condition", "end"}
          /\ Len(GetOutgoingEdges(graph, currentNodeID)) > 0 )
        => ( /\ pc' = "loop"
             /\ currentNodeID' = GetOutgoingEdges(graph, currentNodeID)[1].TargetID )
      ]_vars

\* C9: Execute stops with a nil error right after executing a node of type
\* end, even one with outgoing edges, and right after executing any node
\* without outgoing edges, even one whose type is not end; the last step of
\* the trace is that node's step and no handler is invoked afterwards.
C9_StopsAtEndOrDeadEnd ==
    [][ /\ ( ( /\ Completes
               /\ \/ graph.nodes[currentNodeID].Type = "end"
                  \/ Len(GetOutgoingEdges(graph, currentNodeID)) = 0 )
             => ( /\ pc' = "returned"
                  /\ result'.err = "nil"
                  /\ result'.steps = steps'
                  /\ invoked'[Len(invoked')] = currentNodeID
                  /\ steps'[Len(steps')].NodeID = currentNodeID ) )
        /\ ( pc = "returned" => (pc' = "returned" /\ invoked' = invoked /\ result' = result) )
      ]_vars

\* A run that stopped at an end node in the middle of the graph: the end
\* node has an outgoing edge to a node that was never visited.
C9_Witness ==
    /\ Final
    /\ result.err = "nil"
    /\ LastNode.Type = "end"
    /\ Len(LastEdges) > 0
    /\ LastEdges[1].TargetID \in DOMAIN graph.nodes
    /\ LastEdges[1].TargetID \notin visited
    /\ result.steps[Len(result.steps)].NodeID = LastNode.ID

\* The run is on the sample weather workflow.
IsWorkflow == "condition-1" \in DOMAIN graph.nodes

WorkflowMetadata == graph.nodes["condition-1"].Metadata

StateString(key) ==
    IF key \in DOMAIN initialState THEN initialState[key].s ELSE ""

\* The form names a city and a recipient, the weather function returns a
\* temperature and the send function succeeds.
ScenarioInputs ==
    /\ StateString("form.city") # ""
    /\ StateString("form.email") # ""
    /\ deps.weatherFn.kind = "ok"
    /\ deps.emailFn.kind = "ok"

HasStep(ss, nodeType) == \E i \in 1..Len(ss) : ss[i].NodeType = nodeType

\* C10: on the fully wired graph start -> form -> integration -> condition ->
\* {true: email -> end, false: end} with operator greater_than (the form
\* filled in and the injected functions succeeding, as in the scenarios),
\* Execute returns no error, and the trace has 6 steps with an email step
\* exactly when the temperature returned by the weather function is greater
\* than the threshold; otherwise it has 5 steps and no email step.
C10_EmailIffWarmer ==
    (Final /\ IsWorkflow /\ ScenarioInputs /\ WorkflowMetadata.operator = "greater_than") =>
        /\ result.err = "nil"
        /\ IF deps.weatherFn.temperature > WorkflowMetadata.threshold
           THEN Len(result.steps) = 6 /\ HasStep(result.steps, "email")
           ELSE Len(result.steps) = 5 /\ ~HasStep(result.steps, "email")

\* The temperature equals the threshold and the run took the false branch.
C10_Witness ==
    /\ Final
    /\ IsWorkflow
    /\ ScenarioInputs
    /\ WorkflowMetadata.operator = "greater_than"
    /\ deps.weatherFn.temperature = WorkflowMetadata.threshold
    /\ Len(result.steps) = 5
    /\ result.steps[5].NodeType = "end"

\* The ids met from id on while each node has exactly one outgoing edge, at
\* most n of them.
RECURSIVE ChainFrom(_, _, _)
ChainFrom(g, id, n) ==
    IF n <= 1 \/ ~HasNode(g, id) \/ Len(GetOutgoingEdges(g, id)) # 1
    THEN <<id>>
    ELSE <<id>> \o ChainFrom(g, GetOutgoingEdges(g, id)[1].TargetID, n - 1)

Chain == ChainFrom(graph, GetStartNode(graph), NumNodes)

\* The graph is one chain over all of its nodes, from the start node to its
\* only end node, and every type on it has a handler.
IsChain ==
    /\ Validate(graph) = "nil"
    /\ Len(Chain) = NumNodes
    /\ NoDuplicates(Chain)
    /\ \A i \in 1..Len(Chain) :
          /\ HasNode(graph, Chain[i])
          /\ HasHandler(registry, GetNode(graph, Chain[i]).Type)
          /\ (GetNode(graph, Chain[i]).Type = "start") = (i = 1)
          /\ (GetNode(graph, Chain[i]).Type = "end") = (i = Len(Chain))
    /\ Len(GetOutgoingEdges(graph, Chain[Len(Chain)])) = 0

\* C11: on a graph that is a single chain of n distinct nodes from a start
\* node to an end node, all of whose types have registered handlers, a run in
\* which no handler fails returns a nil error and exactly n completed steps in
\* chain order, the first of type start and the last of type end.
C11_ChainRunsThrough ==
    (IsChain /\ Final /\ ~HandlerFailed) =>
        /\ result.err = "nil"
        /\ StepIDs(result.steps) = Chain
        /\ \A i \in 1..Len(result.steps) : result.steps[i].Status = "completed"
        /\ result.steps[1].NodeType = "start"
        /\ result.steps[Len(result.steps)].NodeType = "end"

\* A chain of three nodes ran through a middle node whose step carries a
\* condition result.
C11_Witness ==
    /\ IsChain
    /\ Final
    /\ ~HandlerFailed
    /\ Len(result.steps) = 3
    /\ result.steps[2].Output.conditionResult = "true"
    /\ result.steps[3].NodeType = "end"

RECURSIVE SetToSeq(_)
SetToSeq(S) ==
    IF S = {} THEN <<>>
    ELSE LET x == CHOOSE y \in S : TRUE IN <<x>> \o SetToSeq(S \ {x})

\* The nodes of g as a list, and its edges as a list that keeps the order of
\* each node's outgoing edges.
GraphNodes(g) == LET ids == SetToSeq(DOMAIN g.nodes) IN [i \in 1..Len(ids) |-> g.nodes[ids[i]]]

RECURSIVE Concat(_, _)
Concat(g, ids) ==
    IF ids = <<>> THEN <<>> ELSE g.adjacency[Head(ids)] \o Concat(g, Tail(ids))

GraphEdges(g) == Concat(g, SetToSeq(DOMAIN g.adjacency))

HasStartType(g) == \E id \in DOMAIN g.nodes : g.nodes[id].Type = "start"

History(g) == SubSeq(registered, 1, calls[g].seen)

\* g has read the map.
HasRead(g) == calls[g].op \in {"Get", "NodeTypes"} /\ calls[g].at \in {"accessed", "returned"}

\* The handler of type t written last in hist.
LastOf(hist, t) ==
    hist[CHOOSE i \in 1..Len(hist) :
            /\ NodeType(hist[i]) = t
            /\ \A j \in (i + 1)..Len(hist) : NodeType(hist[j]) # t]

TypesOf(hist) == {NodeType(hist[i]) : i \in 1..Len(hist)}

\* C13: after any sequence of Register calls, Get(t) returns found = true
\* with the handler registered last among those whose NodeType() is t, and
\* found = false with no handler when none of type t was registered;
\* NodeTypes lists every registered type exactly once.
C13_LastRegistrationWins ==
    \A g \in Goroutines :
        HasRead(g) =>
            /\ (calls[g].op = "Get" =>
                  /\ calls[g].found = (calls[g].t \in TypesOf(History(g)))
                  /\ (calls[g].found => calls[g].got = LastOf(History(g), calls[g].t))
                  /\ (~calls[g].found => calls[g].got = NilHandler))
            /\ (calls[g].op = "NodeTypes" =>
                  /\ NoDuplicates(calls[g].types)
                  /\ {calls[g].types[i] : i \in 1..Len(calls[g].types)} = TypesOf(History(g)))

\* A Get returned the second of two different handlers registered for its type.
C13_Witness ==
    \E g \in Goroutines :
        /\ calls[g].op = "Get"
        /\ calls[g].at = "returned"
        /\ calls[g].found
        /\ calls[g].seen = 2
        /\ NodeType(registered[1]) = calls[g].t
        /\ NodeType(registered[2]) = calls[g].t
        /\ registered[1] # registered[2]
        /\ calls[g].got = registered[2]

\* C14: under every interleaving of Register, Get and NodeTypes calls on one
\* Registry, a goroutine inside Register's locked section is alone in the
\* locked sections (readers overlap with readers only), the mutex records
\* exactly who is inside, and what a Get read is the content of the map
\* between two Registers: the map after the writes made before the read.
C14_WritersExclusive ==
    /\ \A g \in Goroutines :
          (Holding(g) /\ calls[g].op = "Register") =>
              \A x \in Goroutines \ {g} : ~Holding(x)
    /\ mu.writer = (\E g \in Goroutines : Holding(g) /\ calls[g].op = "Register")
    /\ mu.readers = Cardinality({g \in Goroutines : Holding(g) /\ calls[g].op # "Register"})
    /\ \A g \in Goroutines :
          (HasRead(g) /\ calls[g].op = "Get") =>
              LET m == RegisterAll(NewRegistry, History(g)) IN
              /\ calls[g].found = HasHandler(m, calls[g].t)
              /\ (calls[g].found => calls[g].got = Get(m, calls[g].t))

\* Two readers are inside their locked sections together, after a Register.
C14_Witness ==
    /\ \A g \in Goroutines : Holding(g) /\ calls[g].op \in {"Get", "NodeTypes"}
    /\ mu.readers = 2
    /\ Len(registered) = 1

\* C15: when Execute is called with a context that is already cancelled, it
\* returns the error context.Canceled and does not run the workflow through
\* to its end node.
C15_CancelledContextAborts ==
    (ctx = "cancelled" /\ pc = "returned") =>
        /\ result.err = "context canceled"
        /\ ~HasStep(steps, "end")

\* The keys handlers have written so far: the weather handler is the only
\* one that calls Set, and it does so before its step completes.
WrittenKeys ==
    IF \E i \in 1..Len(steps) :
          steps[i].NodeType = "integration" /\ steps[i].Status = "completed"
    THEN {"weather.temperature"}
    ELSE {}

\* Execute got past validation.
Started == pc # "idle" /\ Validate(graph) = "nil"

\* C17: every (key, value) pair of initialState is in the execution context
\* when the first handler is invoked and stays there for every later handler
\* until some handler overwrites that key; a run started with a nil
\* initialState starts with an empty state and enters the loop rather than
\* failing.
C17_InitialStateReadable ==
    Started =>
        /\ \A k \in DOMAIN initialState :
              /\ k \in DOMAIN ec.State
              /\ (ec.State[k] = initialState[k] \/ k \in WrittenKeys)
        /\ ((initialState = <<>> /\ invoked = <<>>) => ec.State = <<>>)
        /\ (pc = "returned" => iterations >= 1)

\* The weather handler has overwritten the temperature given in initialState
\* and the condition handler ran after it; the form entries are as given.
C17_Witness ==
    /\ Started
    /\ "weather.temperature" \in DOMAIN initialState
    /\ ec.State["weather.temperature"] # initialState["weather.temperature"]
    /\ ec.State["form.city"] = initialState["form.city"]
    /\ HasStep(steps, "condition")

\* The workflow's condition handler has been invoked.
ConditionRan == IsWorkflow /\ \E i \in 1..Len(invoked) : invoked[i] = "condition-1"

\* The step the condition handler's invocation left in the trace.
ConditionStep == steps[CHOOSE i \in 1..Len(invoked) : invoked[i] = "condition-1"]

\* The operator tags the specification names.
SpecifiedOperators ==
    {"greater_than", "less_than", "equal_to", "equals", "greater_than_or_equal",
     "less_than_or_equal"}

\* The comparison each specified operator stands for.
Comparison(value, operator, threshold) ==
    CASE operator = "greater_than" -> value > threshold
      [] operator = "less_than" -> value < threshold
      [] operator \in {"equal_to", "equals"} -> value = threshold
      [] operator = "greater_than_or_equal" -> value >= threshold
      [] operator = "less_than_or_equal" -> value <= threshold

\* C18: for every temperature and threshold and every operator among
\* greater_than, less_than, equal_to, equals, greater_than_or_equal and
\* less_than_or_equal, the condition step succeeds and its result is the
\* comparison of the temperature with the threshold that the operator names
\* (equality for both equal_to and equals).
C18_OperatorsCompare ==
    (ConditionRan /\ WorkflowMetadata.operator \in SpecifiedOperators) =>
        /\ ConditionStep.Status = "completed"
        /\ ConditionStep.Output.conditionResult =
              BoolString(Comparison(GetFloat(ec, "weather.temperature"),
                                    WorkflowMetadata.operator, WorkflowMetadata.threshold))

\* C19: whenever the condition node's operator is missing, empty or not one
\* of the specified operator tags, the condition handler returns an error:
\* the run halts with a failed condition step, no branch is followed, and no
\* result (false in particular) is reported.
C19_UnknownOperatorFails ==
    (ConditionRan /\ WorkflowMetadata.operator \notin SpecifiedOperators) =>
        /\ ConditionStep.Status = "failed"
        /\ ConditionStep.Output.conditionResult = "none"
        /\ HandlerFailed
        /\ invoked[Len(invoked)] = "condition-1"

\* The edges of node id that lead to an id that is not in the node set.
DanglingEdges(id) ==
    {i \in 1..Len(GetOutgoingEdges(graph, id)) :
        ~HasNode(graph, GetOutgoingEdges(graph, id)[i].TargetID)}

HasDanglingEdge == \E id \in DOMAIN graph.adjacency : DanglingEdges(id) # {}

\* The traversal stands at an id that is not a node: it followed a dangling
\* edge of the node it executed last.
FollowedDangling ==
    /\ pc = "loop"
    /\ ~HasNode(graph, currentNodeID)
    /\ invoked # <<>>
    /\ \E i \in DanglingEdges(invoked[Len(invoked)]) :
          GetOutgoingEdges(graph, invoked[Len(invoked)])[i].TargetID = currentNodeID

\* C20: a graph with an edge whose target is not in the node set is built
\* and passes Validate; Execute fails with a node-not-found error exactly
\* when the traversal follows such an edge: it fails in the iteration after
\* following one, and it never reports node-not-found otherwise.
C20_DanglingOnlyWhenFollowed ==
    [][ /\ (HasDanglingEdge /\ HasStartType(graph)) => Validate(graph) = "nil"
        /\ (pc = "loop" /\ ~HasNode(graph, currentNodeID)) =>
              (pc' = "returned" /\ result'.err = "node not found")
        /\ (result'.err = "node not found" /\ result.err # "node not found") =>
              FollowedDangling
      ]_vars

\* A run completed without error over a node that is not an end node and
\* has a dangling edge, which the run did not follow.
C20_Witness ==
    /\ Final
    /\ result.err = "nil"
    /\ Len(result.steps) = 2
    /\ \E id \in visited :
          /\ GetNode(graph, id).Type # "end"
          /\ DanglingEdges(id) # {}

\* The call and its context once the loop has ended, for a call whose
\* handlers each have one outcome.
RECURSIVE RunOn(_, _)
RunOn(run, c) ==
    IF run.pc = "returned" THEN [run |-> run, ec |-> c]
    ELSE LET n == CHOOSE x \in Iterations(run, c) : TRUE IN RunOn(n.run, n.ec)

\* Execute(ctx, graph, init) executed alone.
Alone(init) == RunOn(Begun(IdleRun(init), 0), FirstContext(init))

\* C16: when two calls of Execute share one Graph and one Registry and their
\* iterations interleave in any order, each call owns a context of its own,
\* returns the trace and error it returns when executed alone, and ends with
\* the context state it has when executed alone: nothing one call writes to
\* its context is read by the other.
C16_RunsIndependent ==
    /\ \A r, q \in RunIDs :
          (r # q /\ runs[r].pc # "idle" /\ runs[q].pc # "idle") =>
              runs[r].ecRef # runs[q].ecRef
    /\ \A r \in RunIDs :
          runs[r].pc = "returned" =>
              /\ runs[r].result = Alone(runs[r].initialState).run.result
              /\ heap[runs[r].ecRef] = Alone(runs[r].initialState).ec

\* Both calls have returned: one ran through the email step, the other failed
\* at the weather step, and the temperature the first wrote is not in the
\* second's context.
C16_Witness ==
    /\ \A r \in RunIDs : runs[r].pc = "returned"
    /\ runs["r1"].result.err = "nil"
    /\ Len(runs["r1"].result.steps) = 6
    /\ runs["r2"].result.err = "city not provided in form data"
    /\ Len(runs["r2"].result.steps) = 3
    /\ deps.weatherFn.temperature > WorkflowMetadata.threshold
    /\ GetFloat(heap[runs["r1"].ecRef], "weather.temperature") = deps.weatherFn.temperature
    /\ "weather.temperature" \notin DOMAIN heap[runs["r2"].ecRef].State

\* C24: the context's step counter is 0 when the run starts, goes up by
\* exactly one with each handler invocation and never goes down or back to
\* 0: after k invocations it is k, which is the number the k-th handler
\* observed, and the completed steps of the trace carry 1, 2, ..., n in
\* trace order.
C24_StepCounter ==
    /\ [](pc = "idle" => ec.StepNumber = 0)
    /\ [](ec.StepNumber = Len(invoked))
    /\ [](\A i \in 1..Len(steps) :
             (steps[i].Status = "completed") => (steps[i].StepNumber = i))
    /\ [][\/ ec'.StepNumber = ec.StepNumber /\ invoked' = invoked
          \/ ec'.StepNumber = ec.StepNumber + 1 /\ Len(invoked') = Len(invoked) + 1]_vars

\* Scenario A is over: six handlers ran and the last step is number 6.
C24_Witness ==
    /\ Final
    /\ IsWorkflow
    /\ Len(invoked) = 6
    /\ ec.StepNumber = 6
    /\ steps[6].Status = "completed"
    /\ steps[6].StepNumber = 6

\* C25: every step of a trace returned by Execute with the standard
\* handlers, the failed last step of an aborted run included, names the node
\* that was visited: its NodeID and NodeType are that node's, and its
\* StepNumber is its position in the trace counted from 1.
C25_StepsIdentifyNodes ==
    (Final /\ registry = createRegistry) =>
        \A i \in 1..Len(result.steps) :
            /\ result.steps[i].NodeID = invoked[i]
            /\ result.steps[i].NodeType = GetNode(graph, invoked[i]).Type
            /\ result.steps[i].StepNumber = i

\* The run is on the workflow without an integration node.
IsDirect == "condition-2" \in DOMAIN graph.nodes

DirectMetadata == graph.nodes["condition-2"].Metadata

\* The caller's state holds no float under weather.temperature.
NoTemperature ==
    \/ "weather.temperature" \notin DOMAIN initialState
    \/ initialState["weather.temperature"].t # "float64"

Called(impl) == call.made /\ call.handler.impl = impl

\* The string the state the handler was given holds under key; "" if none.
GivenString(key) ==
    IF key \in DOMAIN call.ec.State /\ call.ec.State[key].t = "string"
    THEN call.ec.State[key].s ELSE ""

C22_EmailHandlerContract ==
    Called("EmailHandler") =>
        LET o == call.outcome
            md == call.node.Metadata
            mail == [to |-> GivenString("form.email"),
                     subject |-> IF md.subject = "" THEN "Weather Alert" ELSE md.subject,
                     body |-> [name |-> GivenString("form.name"),
                               city |-> GivenString("form.city"),
                               temperature |-> GetFloat(call.ec, "weather.temperature")]]
        IN /\ (GivenString("form.email") = "") => (o.err # "nil")
           /\ (~md.empty /\ ~md.valid) => (o.err # "nil")
           /\ (deps.emailFn.kind = "err") => (o.err # "nil")
           /\ (o.step.Status = "completed") =>
                 (o.err = "nil" /\ o.sent = << mail >> /\ deps.emailFn.kind = "ok")

\* The payload keys of an engine step's output: its keys other than the
\* message text.
PayloadKeys(keys) == keys \ {"message"}

\* C23: writing the steps Execute returned in the wire format and reading
\* them back gives as many steps in the same order, each with the status
\* it had and with an output that carries the same payload keys, whichever
\* handler produced it (smsContent included).
C23_RoundTrip ==
    Final =>
        LET wire == convertEngineSteps(result.steps) IN
        /\ Len(wire) = Len(result.steps)
        /\ \A i \in 1..Len(wire) :
              /\ wire[i].StepNumber = result.steps[i].StepNumber
              /\ wire[i].NodeType = result.steps[i].NodeType
              /\ wire[i].Status = result.steps[i].Status
              /\ PayloadKeys(JSONKeys(wire[i].Output)) = PayloadKeys(result.steps[i].Output.keys)

StartAdds == {i \in 1..Len(ops) : ops[i].op = "AddNode" /\ ops[i].node.Type = "start"}

\* C26: after any sequence of AddNode calls, with several start nodes or an
\* id added again under another type, GetStartNode is empty or the id of a
\* node whose type is now start, the start node added last; and Validate
\* succeeds exactly when the node set holds a node of type start.
C26_StartNodeIsStart ==
    /\ (GetStartNode(graph) # NoNode) =>
          /\ HasNode(graph, GetStartNode(graph))
          /\ GetNode(graph, GetStartNode(graph)).Type = "start"
          /\ \E i \in StartAdds :
                /\ ops[i].node.ID = GetStartNode(graph)
                /\ \A j \in StartAdds : j <= i
    /\ (Validate(graph) = "nil") <=> HasStartType(graph)

\* The edges passed to AddEdge with source id, in the order of the calls.
RECURSIVE AddedEdges(_, _)
AddedEdges(made, id) ==
    IF made = <<>> THEN <<>>
    ELSE (IF Head(made).op = "AddEdge" /\ Head(made).edge.SourceID = id
          THEN << Head(made).edge >> ELSE <<>>)
         \o AddedEdges(Tail(made), id)

\* C27: after any sequence of AddNode and AddEdge calls, in any order,
\* GetOutgoingEdges(id) is the list of the edges added with source id, in
\* the order they were added and as they were passed, those added before
\* the node itself included; and every node id has an outgoing list.
C27_OutgoingEdgesKept ==
    /\ \A id \in NodeIDs : GetOutgoingEdges(graph, id) = AddedEdges(ops, id)
    /\ \A id \in DOMAIN graph.nodes : id \in DOMAIN graph.adjacency

\* Two edges were added from "n1" before the node "n1" itself, and the node
\* "n2" has an empty outgoing list.
C27_Witness ==
    /\ Len(ops) = MaxOps
    /\ ops[1].op = "AddEdge" /\ ops[1].edge.SourceID = "n1"
    /\ ops[2].op = "AddEdge" /\ ops[2].edge.SourceID = "n1"
    /\ ops[1].edge # ops[2].edge
    /\ \E i \in 3..Len(ops) : ops[i].op = "AddNode" /\ ops[i].node.ID = "n1"
    /\ GetOutgoingEdges(graph, "n1") = << ops[1].edge, ops[2].edge >>
    /\ HasNode(graph, "n2")
    /\ "n2" \in DOMAIN graph.adjacency
    /\ GetOutgoingEdges(graph, "n2") = <<>>

====
